---- MODULE Spec2Model ----
(***************************************************************************)
(* A model of the lifecycle orchestrator of parent/loader.go: the          *)
(* StarterLoader, its wrappers and their status, the start and stop        *)
(* primitives and the concurrent StopBySetting protocol.                   *)
(*                                                                         *)
(* Callers are the threads of Clients.  A public operation is a sequence   *)
(* of steps of one client: a step holds at most one access to shared state *)
(* (a status read or write, a call into a component, the return of such a  *)
(* call).  The goroutines that StopBySetting launches are the records of   *)
(* the variable tasks.                                                     *)
(*                                                                         *)
(* The Module of parentmodule/declaration/module.go, the list of module    *)
(* loaders with Load, Unload and UnloadByConfig, is modelled beside it,    *)
(* with one caller: the Module has no lock.                                *)
(***************************************************************************)
EXTENDS Integers, Sequences, FiniteSets, TLC

(***************************************************************************)
(* Bounds of the model.                                                    *)
(***************************************************************************)
\* the most wrappers the orchestrator ever holds
MaxStarters == 2
\* the most StopBySetting calls that return through their timer
MaxTimeouts == 1
\* the most module loaders a Module holds
MaxModules == 3

\* the threads that call the orchestrator
Clients == {"c1", "c2"}
\* the value of mutex when nobody holds it
NoClient == "none"

(***************************************************************************)
(* Setting (loader.go 103-133).  A nil *Setting is the record NoSetting,   *)
(* whose present field is FALSE; initHandler tells whether a handler was   *)
(* given.                                                                  *)
(***************************************************************************)
NewSetting(starterName, stopPriority, stopAllowAsync, stopMaxWaitTime, initHandler) ==
    [present |-> TRUE, starterName |-> starterName, stopPriority |-> stopPriority,
     stopAllowAsync |-> stopAllowAsync, stopMaxWaitTime |-> stopMaxWaitTime,
     initHandler |-> initHandler]

NoSetting ==
    [present |-> FALSE, starterName |-> "", stopPriority |-> 0,
     stopAllowAsync |-> FALSE, stopMaxWaitTime |-> 0, initHandler |-> FALSE]

(***************************************************************************)
(* The components a caller may register: implementations of the Starter    *)
(* interface, told apart by what their Setting() returns.  A wrapper is    *)
(* named by the component it wraps.                                        *)
(***************************************************************************)
Catalog ==
    << NewSetting("A", 2, FALSE, 1, TRUE),
       NewSetting("B", 0, FALSE, 2, FALSE),
       NewSetting("C", 1, FALSE, 3, FALSE),
       NewSetting("", 1, TRUE, 4, FALSE),
       NewSetting("A", 0, TRUE, 5, FALSE),
       NoSetting >>

Starter == 1..Len(Catalog)

\* the components the callers of Spec register: a synchronous one, two
\* asynchronous ones (one without a name, one with the name of the
\* synchronous one) and one without a Setting
Registered == {1, 4, 5, 6}

\* Starter.Setting()
Setting(w) == Catalog[w]

\* the maxWaitTime arguments callers pass to Stop and StopStarter
CallerWaits == {9}
\* the names callers pass to StartStarter and StopStarter
CallerNames == {"A", "", "X"}
\* the instances a component's Start() may return
Instances == {"i1", "i2"}

\* the values of starterWrapper.status
NotStarted == 0
Started == 1
Stopped == -1

(***************************************************************************)
(* Helpers on sequences.                                                   *)
(***************************************************************************)
Range(s) == {s[i] : i \in 1..Len(s)}

NoDup(s) == \A i, j \in 1..Len(s) : i # j => s[i] # s[j]

\* the lists of at most n distinct components of S
StarterLists(S, n) ==
    UNION {{s \in [1..k -> S] : NoDup(s)} : k \in 0..n}

(***************************************************************************)
(* starterWrapper and starterWrappers (loader.go 37-99).                   *)
(***************************************************************************)
\* getStarterName without the fallback to "unnamed"
getSettingName(w) == Setting(w).starterName

getStarterName(w) ==
    IF Setting(w).present /\ Setting(w).starterName # ""
    THEN Setting(w).starterName
    ELSE "unnamed"

\* find that takes the first wrapper whatever its name
findFirst(s, starterName) == IF Len(s) = 0 THEN 0 ELSE s[1]

\* the first wrapper of s whose Setting carries starterName; 0 is nil
find(s, starterName) ==
    LET hits == {i \in 1..Len(s) :
                    Setting(s[i]).present /\ Setting(s[i]).starterName = starterName}
    IN IF hits = {} THEN 0
       ELSE s[CHOOSE i \in hits : \A j \in hits : i <= j]

\* checkSetting that accepts a wrapper without a Setting
checkSettingSkipped(s) == TRUE

checkSetting(s) == \A i \in 1..Len(s) : Setting(s[i]).present

Less(w1, w2) == Setting(w1).stopPriority < Setting(w2).stopPriority

VARIABLES
    once,        \* loaderOnce has run
    loader,      \* the package variable loader: "nil", "noStarters" (a
                 \* StarterLoader whose starters pointer is nil) or "ready"
    starters,    \* *loader.starters, the registration-ordered wrappers
    status,      \* status[w]: the status field of the wrapper of component w
    mutex,       \* the holder of StarterLoader.Mutex
    pc,          \* pc[c]: where client c stands
    th,          \* th[c]: the locals of the operation client c runs
    tasks,       \* the goroutines of StopBySetting calls that still run
    wg,          \* wg[g]: the WaitGroup counter of the call of generation g
    stopResult,  \* stopResult[g]: the result slice of the call of generation g
    mu,          \* mu[g]: the task holding the result lock of generation g
    stopCalls,   \* stopCalls[g]: the component Stop() calls made by generation g
    timeouts     \* the number of StopBySetting calls that timed out

(***************************************************************************)
(* Module (module.go 11-62): the module loaders and their ModuleConfig.    *)
(* A nil *ModuleConfig is the record NoModuleConfig.                       *)
(***************************************************************************)
\* line 16
defaultConfigUnregisterPriority == 9999
\* line 17
defaultConfigUnregisterMaxWaitSeconds == 20

NewModuleConfig(moduleName, priority, allowAsync, maxWaitSeconds) ==
    [present |-> TRUE, ModuleName |-> moduleName,
     UnregisterPriority |-> priority, UnregisterAllowAsync |-> allowAsync,
     UnregisterMaxWaitSeconds |-> maxWaitSeconds]

NoModuleConfig ==
    [present |-> FALSE, ModuleName |-> "", UnregisterPriority |-> 0,
     UnregisterAllowAsync |-> FALSE, UnregisterMaxWaitSeconds |-> 0]

\* the module loaders of the model: an asynchronous one, a synchronous one
\* of the first priority, one without a ModuleConfig, and a synchronous one
\* without a name whose priority is that of the first
ModuleCatalog ==
    <<NewModuleConfig("module1", 1, TRUE, 0),
      NewModuleConfig("module2", 0, FALSE, 5),
      NoModuleConfig,
      NewModuleConfig("", 1, FALSE, 0)>>

ModuleLoader == 1..Len(ModuleCatalog)
ModuleConfig(m) == ModuleCatalog[m]

\* the maxWaitSeconds a caller passes to Unload
CallerWaitSeconds == {7}

\* lines 208-227: the configuration in force
checkConfig(config) ==
    IF ~config.present
    THEN NewModuleConfig("unnamed", defaultConfigUnregisterPriority, FALSE,
                         defaultConfigUnregisterMaxWaitSeconds)
    ELSE [config EXCEPT
            !.ModuleName = IF @ = "" THEN "unnamed" ELSE @,
            !.UnregisterMaxWaitSeconds =
                IF @ = 0 THEN defaultConfigUnregisterMaxWaitSeconds ELSE @]

\* lines 116-121 (and 89-94, 157-162): the name in logs and results
moduleName(m) ==
    IF ~ModuleConfig(m).present \/ ModuleConfig(m).ModuleName = ""
    THEN "unnamed"
    ELSE ModuleConfig(m).ModuleName

\* lines 56-62
moduleLess(m1, m2) ==
    checkConfig(ModuleConfig(m1)).UnregisterPriority
        < checkConfig(ModuleConfig(m2)).UnregisterPriority

\* lines 20-25
ShutdownResult(name, err, gracefully) ==
    [ModuleName |-> name, Err |-> err, Gracefully |-> gracefully]

NoShutdownResult == ShutdownResult("", "none", FALSE)

VARIABLES
    ModuleLoaders,   \* Module.ModuleLoaders
    loadOrder,       \* ModuleLoaders as the Module was built
    mpc,             \* where the caller of the Module stands
    ml,              \* the locals of the operation the caller runs
    unloads,         \* the goroutines of UnloadByConfig that still run
    unloadWait,      \* the counter of the WaitGroup wait of UnloadByConfig
    sortedByConfig   \* UnloadByConfig has been called

vars == <<once, loader, starters, status, mutex, pc, th, tasks, wg, stopResult,
          mu, stopCalls, timeouts, ModuleLoaders, loadOrder, mpc, ml, unloads,
          unloadWait, sortedByConfig>>

starterVars == <<once, loader, starters, status, mutex, pc, th, tasks, wg,
                 stopResult, mu, stopCalls, timeouts>>
moduleVars == <<ModuleLoaders, loadOrder, mpc, ml, unloads, unloadWait,
                sortedByConfig>>

loaderVars == <<once, loader, starters>>
taskVars == <<tasks, wg, stopResult, mu, stopCalls, timeouts>>

Gens == 0..MaxTimeouts


(***************************************************************************)
(* The locals of a public operation and what it returns.                   *)
(***************************************************************************)
\* the (results, error) an operation returns; err "" while it has not
\* returned, "none" for a nil error; errOf is the component whose Start()
\* produced the error (0: none); names is what StoppedStarters returns
Ret(panic, err, errOf, results, names) ==
    [panic |-> panic, err |-> err, errOf |-> errOf, results |-> results,
     names |-> names]

NoRet == Ret(FALSE, "", 0, <<>>, <<>>)

\* a call into a component, as the operation that made it records it
Call(fn, w, wait, instance) ==
    [fn |-> fn, w |-> w, wait |-> wait, instance |-> instance]

NoLocals ==
    [name |-> "", arg |-> "", wait |-> 0, timed |-> FALSE, idx |-> 0, w |-> 0,
     gen |-> 0, pre |-> [w \in Starter |-> NotStarted], quiet |-> TRUE,
     order |-> <<>>, calls |-> <<>>, reported |-> <<>>, results |-> <<>>,
     ret |-> NoRet, list |-> <<>>, first |-> FALSE, got |-> "nil"]

\* the locals of an operation on the Module: the calls it made into module
\* loaders, in order, and its result
NoModuleLocals ==
    [name |-> "", maxWaitSeconds |-> 0, idx |-> 0, calls |-> <<>>,
     shutdownResult |-> <<>>, err |-> ""]

\* a Module without loaders on which nothing is called
NoModule ==
    /\ ModuleLoaders = <<>>
    /\ loadOrder = <<>>
    /\ mpc = "idle"
    /\ ml = NoModuleLocals
    /\ unloads = {}
    /\ unloadWait = 0
    /\ sortedByConfig = FALSE

\* the locals of an operation that has just taken the lock; pre, order and
\* quiet remember what it found: the status of every wrapper, the wrapper
\* sequence, and whether no goroutine of an earlier StopBySetting was still
\* running
Enter(name, arg, wait, timed) ==
    [NoLocals EXCEPT !.name = name, !.arg = arg, !.wait = wait,
                     !.timed = timed, !.pre = status, !.order = starters,
                     !.quiet = (tasks = {})]

TypeOK ==
    /\ once \in BOOLEAN
    /\ loader \in {"nil", "noStarters", "ready"}
    /\ Range(starters) \subseteq Starter /\ NoDup(starters)
    /\ status \in [Starter -> {NotStarted, Started, Stopped}]
    /\ mutex \in Clients \cup {NoClient}
    /\ pc \in [Clients -> {"idle", "start", "inStart", "mark", "stop",
                           "inStop", "names", "wait", "returned"}]
    /\ DOMAIN th = Clients
    /\ timeouts \in 0..MaxTimeouts

Init ==
    /\ once = FALSE
    /\ loader = "nil"
    /\ starters = <<>>
    /\ status = [w \in Starter |-> NotStarted]
    /\ mutex = NoClient
    /\ pc = [c \in Clients |-> "idle"]
    /\ th = [c \in Clients |-> NoLocals]
    /\ tasks = {}
    /\ wg = [g \in Gens |-> 0]
    /\ stopResult = [g \in Gens |-> <<>>]
    /\ mu = [g \in Gens |-> 0]
    /\ stopCalls = [g \in Gens |-> <<>>]
    /\ timeouts = 0
    /\ NoModule

(***************************************************************************)
(* NewStarterLoader (loader.go 148-167): the body runs under loaderOnce,   *)
(* so only the first call builds the loader.                               *)
(***************************************************************************)
\* loaderOnceDo that builds a loader at every call
loaderOnceDoAgain(list) ==
    /\ once' = TRUE
    /\ loader' = IF Len(list) = 0 THEN "noStarters" ELSE "ready"
    /\ starters' = list

\* lines 149-165: loaderOnce.Do runs the function that builds the loader
\* at the first call and never again
loaderOnceDo(list) ==
    IF once
    THEN UNCHANGED <<once, loader, starters>>
    ELSE /\ once' = TRUE
         /\ loader' = IF Len(list) = 0 THEN "noStarters" ELSE "ready"
         /\ starters' = list

NewStarterLoader(list) ==
    /\ loaderOnceDo(list)
    /\ UNCHANGED <<status, mutex, pc, th>>
    /\ UNCHANGED taskVars
    /\ UNCHANGED moduleVars

\* NewStarterLoader called by client c, who keeps what it passed (list),
\* whether the call was the first (first) and the loader it got (got)
NewStarterLoaderBy(c, list) ==
    /\ pc[c] = "idle"
    /\ loaderOnceDo(list)
    /\ th' = [th EXCEPT ![c] = [NoLocals EXCEPT !.name = "NewStarterLoader",
                                                !.list = list, !.first = ~once,
                                                !.got = loader']]
    /\ UNCHANGED <<status, mutex, pc>>
    /\ UNCHANGED taskVars
    /\ UNCHANGED moduleVars

\* Lock without the mutual exclusion
LockFree(c) == pc[c] = "idle" /\ loader # "nil"

\* s.Mutex.Lock() lets client c through; a client has a loader to call once
\* NewStarterLoader has returned one
Lock(c) == pc[c] = "idle" /\ loader # "nil" /\ mutex = NoClient

\* client c goes on at label with locals l
Goto(c, label, l) ==
    /\ pc' = [pc EXCEPT ![c] = label]
    /\ th' = [th EXCEPT ![c] = l]

\* client c reaches a return statement
Return(c, l, ret) == Goto(c, "returned", [l EXCEPT !.ret = ret])

\* len(*s.starters) dereferences a nil pointer on a loader built from an
\* empty list
NilStarters == loader = "noStarters"

Panic == Ret(TRUE, "nil pointer dereference", 0, <<>>, <<>>)

\* the deferred s.Mutex.Unlock() runs once the return values are set
Unlock(c) ==
    /\ pc[c] = "returned"
    /\ mutex' = NoClient
    /\ Goto(c, "idle", NoLocals)
    /\ wg' = [wg EXCEPT ![timeouts] = 0]
    /\ stopResult' = [stopResult EXCEPT ![timeouts] = <<>>]
    /\ stopCalls' = [stopCalls EXCEPT ![timeouts] = <<>>]
    /\ UNCHANGED <<status, tasks, mu, timeouts>>
    /\ UNCHANGED loaderVars
    /\ UNCHANGED moduleVars

(***************************************************************************)
(* start (loader.go 320-339), the start primitive, run by client c on the  *)
(* wrapper th[c].w.                                                        *)
(***************************************************************************)
\* startDone with the loop of Start going on after an error
startDoneGoesOn(l, err, errOf) ==
    IF l.name = "Start" /\ l.idx < Len(starters)
    THEN <<"start", [l EXCEPT !.idx = l.idx + 1, !.w = starters[l.idx + 1]]>>
    ELSE <<"returned", [l EXCEPT !.ret = Ret(FALSE, err, errOf, <<>>, <<>>)]>>

\* what follows the primitive in Start (the loop of 189-193) and in
\* StartStarter (208)
startDone(l, err, errOf) ==
    IF err # "none"
    THEN <<"returned", [l EXCEPT !.ret = Ret(FALSE, err, errOf, <<>>, <<>>)]>>
    ELSE IF l.name = "Start" /\ l.idx < Len(starters)
    THEN <<"start", [l EXCEPT !.idx = l.idx + 1, !.w = starters[l.idx + 1]]>>
    ELSE <<"returned", [l EXCEPT !.ret = Ret(FALSE, "none", 0, <<>>, <<>>)]>>

\* startSkips without the status check
startSkipsNever(w) == FALSE

\* startSkips that also leaves a wrapper that is Stopped alone
startSkipsStopped(w) == status[w] # NotStarted

\* line 321: the primitive does nothing for a wrapper that is Started
startSkips(w) == status[w] = Started

\* lines 321-326: the status check and the call of starter.Start()
startInvoke(c) ==
    /\ pc[c] = "start"
    /\ LET l == th[c]
           next == startDone(l, "none", 0)
       IN IF startSkips(l.w)
          THEN Goto(c, next[1], next[2])
          ELSE Goto(c, "inStart",
                    [l EXCEPT !.calls = Append(@, Call("Start", l.w, 0, ""))])
    /\ UNCHANGED <<status, mutex>>
    /\ UNCHANGED loaderVars
    /\ UNCHANGED moduleVars
    /\ UNCHANGED taskVars

\* hasInitHandler that asks for a Setting only
hasSetting(w) == Setting(w).present

\* line 331: the handler runs when the Setting and its initHandler exist
hasInitHandler(w) == Setting(w).present /\ Setting(w).initHandler

\* lines 326-334: starter.Start() returns; an error ends the primitive, and
\* otherwise the handler, if any, is called with the instance.  calls
\* records the error or the instance returned, and the call of the handler.
startReturn(c) ==
    /\ pc[c] = "inStart"
    /\ \E failed \in BOOLEAN, instance \in Instances :
         LET l == [th[c] EXCEPT !.calls = IF failed
                                              THEN Append(@, Call("StartError", th[c].w, 0, ""))
                                              ELSE Append(@, Call("StartReturned", th[c].w, 0, instance))]
             next == startDone(l, "start error", l.w)
         IN IF failed
            THEN Goto(c, next[1], next[2])
            ELSE Goto(c, "mark",
                      [l EXCEPT !.calls = IF hasInitHandler(l.w)
                                          THEN Append(@, Call("initHandler", l.w, 0, instance))
                                          ELSE @])
    /\ UNCHANGED <<status, mutex>>
    /\ UNCHANGED loaderVars
    /\ UNCHANGED moduleVars
    /\ UNCHANGED taskVars

\* line 336: wrapper.status = 1
startMark(c) ==
    /\ pc[c] = "mark"
    /\ LET l == th[c]
           next == startDone(l, "none", 0)
       IN /\ status' = [status EXCEPT ![l.w] = Started]
          /\ Goto(c, next[1], next[2])
    /\ UNCHANGED mutex
    /\ UNCHANGED loaderVars
    /\ UNCHANGED moduleVars
    /\ UNCHANGED taskVars

(***************************************************************************)
(* Start (loader.go 183-195) and StartStarter (198-209).                   *)
(***************************************************************************)
Start(c) ==
    /\ Lock(c)
    /\ mutex' = c
    /\ LET l == Enter("Start", "", 0, FALSE)
       IN IF NilStarters
          THEN Return(c, l, Panic)
          ELSE IF Len(starters) = 0
          THEN Return(c, l, Ret(FALSE, "no starter", 0, <<>>, <<>>))
          ELSE Goto(c, "start", [l EXCEPT !.idx = 1, !.w = starters[1]])
    /\ UNCHANGED status
    /\ UNCHANGED loaderVars
    /\ UNCHANGED moduleVars
    /\ UNCHANGED taskVars

StartStarter(c, starterName) ==
    /\ Lock(c)
    /\ mutex' = c
    /\ LET l == Enter("StartStarter", starterName, 0, FALSE)
           wrapper == find(starters, starterName)
       IN IF NilStarters
          THEN Return(c, l, Panic)
          ELSE IF Len(starters) = 0
          THEN Return(c, l, Ret(FALSE, "no starter", 0, <<>>, <<>>))
          ELSE IF wrapper = 0
          THEN Return(c, l, Ret(FALSE, "unknown starterName", 0, <<>>, <<>>))
          ELSE Goto(c, "start", [l EXCEPT !.w = wrapper])
    /\ UNCHANGED status
    /\ UNCHANGED loaderVars
    /\ UNCHANGED moduleVars
    /\ UNCHANGED taskVars


(***************************************************************************)
(* stop (loader.go 342-365), the stop primitive.  Its pieces are shared by *)
(* the clients (Stop, StopStarter) and by the tasks of StopBySetting.      *)
(***************************************************************************)
StopResult(starterName, error, isStopped, gracefully, wrapper) ==
    [StarterName |-> starterName, Error |-> error, Stopped |-> isStopped,
     Gracefully |-> gracefully, wrapper |-> wrapper]

NoResult == StopResult("", "", FALSE, FALSE, 0)

\* stopSkips without the status check
stopSkipsNever(w) == FALSE

\* line 344: a wrapper that is not Started is not stopped
stopSkips(w) == status[w] # Started

\* line 345
notStarted(w) == StopResult(getStarterName(w), "not started", FALSE, FALSE, w)

\* stopMark that takes a wrapper that did not stop back to NotStarted
stopMarkReset(w, isStopped, failed) ==
    [status EXCEPT ![w] = IF isStopped THEN Stopped ELSE NotStarted]

\* stopMark that leaves the wrapper Started when Stop() returned an error
stopMarkUnlessError(w, isStopped, failed) ==
    IF isStopped /\ ~failed THEN [status EXCEPT ![w] = Stopped] ELSE status

\* lines 356-358: the status after starter.Stop() returned; the stopped
\* flag alone decides, the error plays no part
stopMark(w, isStopped, failed) ==
    IF isStopped THEN [status EXCEPT ![w] = Stopped] ELSE status

\* what a component's Stop() returned at line 350
Reported(w, gracefully, isStopped, failed) ==
    [w |-> w, gracefully |-> gracefully, stopped |-> isStopped,
     failed |-> failed]

\* stopResultOf that reports a stop as graceful only when the component
\* stopped
stopResultOfStopped(w, gracefully, isStopped, failed) ==
    StopResult(getStarterName(w), IF failed THEN "stop error" ELSE "none",
               isStopped, gracefully /\ isStopped, w)

\* lines 359-364: the result built from what starter.Stop() returned
stopResultOf(w, gracefully, isStopped, failed) ==
    StopResult(getStarterName(w), IF failed THEN "stop error" ELSE "none",
               isStopped, gracefully, w)

\* stopDone with the loop of Stop ending at the first error of a component
stopDoneAborts(l, result) ==
    LET rs == Append(l.results, result)
    IN IF l.name = "Stop" /\ l.idx < Len(starters) /\ result.Error # "stop error"
       THEN <<"stop", [l EXCEPT !.results = rs, !.idx = l.idx + 1,
                                !.w = starters[l.idx + 1]]>>
       ELSE <<"returned", [l EXCEPT !.results = rs,
                                    !.ret = Ret(FALSE, "none", 0, rs, <<>>)]>>

\* what follows the primitive in Stop (the loop of 299-302) and in
\* StopStarter (316)
stopDone(l, result) ==
    LET rs == Append(l.results, result)
    IN IF l.name = "Stop" /\ l.idx < Len(starters)
       THEN <<"stop", [l EXCEPT !.results = rs, !.idx = l.idx + 1,
                                !.w = starters[l.idx + 1]]>>
       ELSE <<"returned", [l EXCEPT !.results = rs,
                                    !.ret = Ret(FALSE, "none", 0, rs, <<>>)]>>

\* stopInvoke that passes the stopMaxWaitTime of the wrapper's Setting
stopInvokeOwnWait(c) ==
    /\ pc[c] = "stop"
    /\ LET l == th[c]
           next == stopDone(l, notStarted(l.w))
       IN IF stopSkips(l.w)
          THEN Goto(c, next[1], next[2])
          ELSE Goto(c, "inStop",
                    [l EXCEPT !.calls = Append(@, Call("Stop", l.w,
                                                       Setting(l.w).stopMaxWaitTime, ""))])
    /\ UNCHANGED <<status, mutex>>
    /\ UNCHANGED loaderVars
    /\ UNCHANGED moduleVars
    /\ UNCHANGED taskVars

\* lines 343-350 in a client: the status check and the call of
\* starter.Stop(maxWaitTime)
stopInvoke(c) ==
    /\ pc[c] = "stop"
    /\ LET l == th[c]
           next == stopDone(l, notStarted(l.w))
       IN IF stopSkips(l.w)
          THEN Goto(c, next[1], next[2])
          ELSE Goto(c, "inStop",
                    [l EXCEPT !.calls = Append(@, Call("Stop", l.w, l.wait, ""))])
    /\ UNCHANGED <<status, mutex>>
    /\ UNCHANGED loaderVars
    /\ UNCHANGED moduleVars
    /\ UNCHANGED taskVars

\* lines 350-364 in a client: starter.Stop() returns; reported remembers
\* what it returned
stopReturn(c) ==
    /\ pc[c] = "inStop"
    /\ \E gracefully, isStopped, failed \in BOOLEAN :
         LET l == [th[c] EXCEPT !.reported =
                       Append(@, Reported(th[c].w, gracefully, isStopped, failed))]
             next == stopDone(l, stopResultOf(l.w, gracefully, isStopped, failed))
         IN /\ status' = stopMark(l.w, isStopped, failed)
            /\ Goto(c, next[1], next[2])
    /\ UNCHANGED mutex
    /\ UNCHANGED loaderVars
    /\ UNCHANGED moduleVars
    /\ UNCHANGED taskVars

(***************************************************************************)
(* Stop (loader.go 292-303) and StopStarter (306-317).                     *)
(***************************************************************************)
Stop(c, maxWaitTime) ==
    /\ Lock(c)
    /\ mutex' = c
    /\ LET l == Enter("Stop", "", maxWaitTime, FALSE)
       IN IF NilStarters
          THEN Return(c, l, Panic)
          ELSE IF Len(starters) = 0
          THEN Return(c, l, Ret(FALSE, "no starter", 0, <<>>, <<>>))
          ELSE Goto(c, "stop", [l EXCEPT !.idx = 1, !.w = starters[1]])
    /\ UNCHANGED status
    /\ UNCHANGED loaderVars
    /\ UNCHANGED moduleVars
    /\ UNCHANGED taskVars

StopStarter(c, starterName, maxWaitTime) ==
    /\ Lock(c)
    /\ mutex' = c
    /\ LET l == Enter("StopStarter", starterName, maxWaitTime, FALSE)
           wrapper == find(starters, starterName)
       IN IF NilStarters
          THEN Return(c, l, Panic)
          ELSE IF Len(starters) = 0
          THEN Return(c, l, Ret(FALSE, "no starter", 0, <<>>, <<>>))
          ELSE IF wrapper = 0
          THEN Return(c, l, Ret(FALSE, "unknown starterName", 0, <<>>, <<>>))
          ELSE Goto(c, "stop", [l EXCEPT !.w = wrapper])
    /\ UNCHANGED status
    /\ UNCHANGED loaderVars
    /\ UNCHANGED moduleVars
    /\ UNCHANGED taskVars

(***************************************************************************)
(* StoppedStarters (loader.go 282-289) and stoppedStarters (75-83): one    *)
(* status is read at each step of the loop.                                *)
(***************************************************************************)
StoppedStarters(c) ==
    /\ Lock(c)
    /\ mutex' = c
    /\ LET l == Enter("StoppedStarters", "", 0, FALSE)
       IN IF NilStarters
          THEN Return(c, l, Panic)
          ELSE IF Len(starters) = 0
          THEN Return(c, l, Ret(FALSE, "none", 0, <<>>, <<>>))
          ELSE Goto(c, "names", [l EXCEPT !.idx = 1, !.w = starters[1]])
    /\ UNCHANGED status
    /\ UNCHANGED loaderVars
    /\ UNCHANGED moduleVars
    /\ UNCHANGED taskVars

\* stoppedStarters that names the wrappers that are Stopped only
stoppedStartersOnlyStopped(c) ==
    /\ pc[c] = "names"
    /\ LET l == th[c]
           starterNames == IF status[l.w] = Stopped
                           THEN Append(l.ret.names, getStarterName(l.w))
                           ELSE l.ret.names
       IN IF l.idx < Len(starters)
          THEN Goto(c, "names", [l EXCEPT !.ret.names = starterNames,
                                          !.idx = l.idx + 1,
                                          !.w = starters[l.idx + 1]])
          ELSE Return(c, l, Ret(FALSE, "none", 0, <<>>, starterNames))
    /\ UNCHANGED <<status, mutex>>
    /\ UNCHANGED loaderVars
    /\ UNCHANGED moduleVars
    /\ UNCHANGED taskVars

\* lines 77-81: one turn of the loop
stoppedStarters(c) ==
    /\ pc[c] = "names"
    /\ LET l == th[c]
           starterNames == IF status[l.w] # Started
                           THEN Append(l.ret.names, getStarterName(l.w))
                           ELSE l.ret.names
       IN IF l.idx < Len(starters)
          THEN Goto(c, "names", [l EXCEPT !.ret.names = starterNames,
                                          !.idx = l.idx + 1,
                                          !.w = starters[l.idx + 1]])
          ELSE Return(c, l, Ret(FALSE, "none", 0, <<>>, starterNames))
    /\ UNCHANGED <<status, mutex>>
    /\ UNCHANGED loaderVars
    /\ UNCHANGED moduleVars
    /\ UNCHANGED taskVars

(***************************************************************************)
(* AddStarter (loader.go 170-180).  The model registers a component once   *)
(* and at most MaxStarters of them.                                        *)
(***************************************************************************)
AddStarter(c, starter) ==
    /\ Lock(c)
    /\ NilStarters \/ (Len(starters) < MaxStarters /\ starter \notin Range(starters))
    /\ mutex' = c
    /\ LET l == Enter("AddStarter", "", 0, FALSE)
       IN IF NilStarters
          THEN /\ Return(c, [l EXCEPT !.w = starter], Panic)
               /\ UNCHANGED starters
          ELSE /\ starters' = Append(starters, starter)
               /\ Return(c, [l EXCEPT !.w = starter],
                         Ret(FALSE, "none", 0, <<>>, <<>>))
    /\ UNCHANGED <<status, once, loader>>
    /\ UNCHANGED taskVars
    /\ UNCHANGED moduleVars


(***************************************************************************)
(* StopBySetting (loader.go 212-279).                                      *)
(***************************************************************************)
\* sorted without the sort: the copy in registration order
unsorted(s) == {s}

\* line 229: sort.Sort(&copied) orders by Less and promises nothing about
\* wrappers of equal priority: every ordering with no wrapper before one
\* that is Less than it is an outcome
sorted(s) ==
    {p \in [1..Len(s) -> Range(s)] :
        /\ NoDup(p)
        /\ \A i, j \in 1..Len(s) : i < j => ~Less(p[j], p[i])}

\* startersAfterSort with the sort done on the sequence itself
sortedInPlace(s, copied) == copied

\* lines 224-229: *s.starters once copied, the slice made from its elements,
\* has been sorted
startersAfterSort(s, copied) == s

\* lines 230-232: coll.SliceFilter keeps the wrappers whose Setting allows
\* an asynchronous stop
asyncStopOf(copied) ==
    SelectSeq(copied, LAMBDA w : Setting(w).stopAllowAsync)

\* the comparison handed to coll.SliceComplement (line 234)
sameStarter(w1, w2) == getStarterName(w1) = getStarterName(w2)

\* lines 233-235: coll.SliceComplement keeps the wrappers of copied that
\* compare equal to no wrapper of asyncStop
syncStopOf(copied, asyncStop) ==
    SelectSeq(copied, LAMBDA w : \A i \in 1..Len(asyncStop) : ~sameStarter(w, asyncStop[i]))

\* a goroutine of StopBySetting: the sequential one (id 0, lines 241-250)
\* or the one of the k-th member of asyncStop (id k, lines 254-260); todo
\* holds the wrappers it has still to stop, res the result it is about to
\* append and snap the slice it read under the result lock
Task(gen, id, todo, label, res, snap) ==
    [gen |-> gen, id |-> id, todo |-> todo, pc |-> label, res |-> res,
     snap |-> snap]

\* launched with the one sequential goroutine for both groups
launchedInOrder(gen, syncStop, asyncStop) ==
    IF Len(syncStop \o asyncStop) = 0 THEN {}
    ELSE {Task(gen, 0, syncStop \o asyncStop, "stop", NoResult, <<>>)}

\* the goroutines lines 241-261 launch
launched(gen, syncStop, asyncStop) ==
    (IF Len(syncStop) = 0 THEN {}
     ELSE {Task(gen, 0, syncStop, "stop", NoResult, <<>>)})
    \cup {Task(gen, k, <<asyncStop[k]>>, "stop", NoResult, <<>>) :
             k \in 1..Len(asyncStop)}

\* line 273: what the call returns with the timeout error
timeoutResult(gen) == <<>>

StopBySetting(c, timed) ==
    /\ Lock(c)
    /\ mutex' = c
    /\ LET l == Enter("StopBySetting", "", 0, timed)
           gen == timeouts
       IN IF NilStarters
          THEN /\ Return(c, l, Panic)
               /\ UNCHANGED <<tasks, wg, starters>>
          ELSE IF Len(starters) = 0
          THEN /\ Return(c, l, Ret(FALSE, "no starter", 0, <<>>, <<>>))
               /\ UNCHANGED <<tasks, wg, starters>>
          ELSE IF ~checkSetting(starters)
          THEN /\ Return(c, l, Ret(FALSE, "some starter has no setting", 0, <<>>, <<>>))
               /\ UNCHANGED <<tasks, wg, starters>>
          ELSE \E copied \in sorted(starters) :
                 LET asyncStop == asyncStopOf(copied)
                     syncStop == syncStopOf(copied, asyncStop)
                 IN /\ wg' = [wg EXCEPT ![gen] = Len(starters)]
                    /\ starters' = startersAfterSort(starters, copied)
                    /\ tasks' = tasks \cup launched(gen, syncStop, asyncStop)
                    /\ Goto(c, "wait", [l EXCEPT !.gen = gen])
    /\ UNCHANGED <<status, stopResult, mu, stopCalls, timeouts>>
    /\ UNCHANGED <<once, loader>>
    /\ UNCHANGED moduleVars

\* the call of generation g has returned through its timer: its goroutines
\* still run, and nothing reads its result slice or its WaitGroup any more
orphan(t) == t.gen < timeouts

\* task t once it is done with the wrapper at the head of todo: the
\* sequential one goes on with its next wrapper, any other ends
advance(t) ==
    IF Len(t.todo) > 1
    THEN {Task(t.gen, t.id, Tail(t.todo), "stop", NoResult, <<>>)}
    ELSE {}

\* lines 243-244 and 256 with 343-350: the status check and the call of
\* starter.Stop with the wrapper's own stopMaxWaitTime.  What an orphan
\* appends nobody can read, so the model does not keep it.
taskStop(t) ==
    /\ t.pc = "stop"
    /\ LET w == Head(t.todo)
       IN IF stopSkips(w)
          THEN /\ tasks' = (tasks \ {t}) \cup
                             (IF orphan(t) THEN advance(t)
                              ELSE {[t EXCEPT !.pc = "lock", !.res = notStarted(w)]})
               /\ UNCHANGED stopCalls
          ELSE /\ tasks' = (tasks \ {t}) \cup {[t EXCEPT !.pc = "inStop"]}
               /\ stopCalls' =
                    IF orphan(t) THEN stopCalls
                    ELSE [stopCalls EXCEPT ![t.gen] =
                            Append(@, Call("Stop", w, Setting(w).stopMaxWaitTime, ""))]
    /\ UNCHANGED <<status, mutex, pc, th, wg, stopResult, mu, timeouts>>
    /\ UNCHANGED loaderVars
    /\ UNCHANGED moduleVars

\* lines 350-364 in a task: starter.Stop() returns
taskStopReturn(t) ==
    /\ t.pc = "inStop"
    /\ \E gracefully, isStopped, failed \in BOOLEAN :
         LET w == Head(t.todo)
         IN /\ status' = stopMark(w, isStopped, failed)
            /\ tasks' = (tasks \ {t}) \cup
                          (IF orphan(t) THEN advance(t)
                           ELSE {[t EXCEPT !.pc = "lock",
                                           !.res = stopResultOf(w, gracefully, isStopped, failed)]})
    /\ UNCHANGED <<mutex, pc, th, wg, stopResult, mu, stopCalls, timeouts>>
    /\ UNCHANGED loaderVars
    /\ UNCHANGED moduleVars

\* resultLock without the mutual exclusion
resultLockFree(t) == TRUE

\* resultLock that lets an asynchronous goroutine through only once the
\* sequential goroutine has ended
resultLockSyncFirst(t) ==
    /\ mu[t.gen] = 0
    /\ t.id # 0 => \A u \in tasks : u.gen = t.gen => u.id # 0

\* resultLock that holds the sequential goroutine back while the Stop() of
\* an asynchronous member is in flight
resultLockAfterAsync(t) ==
    /\ mu[t.gen] = 0
    /\ t.id = 0 => \A u \in tasks : (u.gen = t.gen /\ u.id # 0) => u.pc # "inStop"

\* mu.Lock() lets task t through
resultLock(t) == mu[t.gen] = 0

\* lines 245-246 and 257-258: mu.Lock() and the read of stopResult that
\* append makes
taskLock(t) ==
    /\ t.pc = "lock"
    /\ resultLock(t)
    /\ mu' = [mu EXCEPT ![t.gen] = t.id + 1]
    /\ tasks' = (tasks \ {t}) \cup {[t EXCEPT !.pc = "append", !.snap = stopResult[t.gen]]}
    /\ UNCHANGED <<status, mutex, pc, th, wg, stopResult, stopCalls, timeouts>>
    /\ UNCHANGED loaderVars
    /\ UNCHANGED moduleVars

\* lines 246-248 and 258-259 with 255: the write of stopResult, mu.Unlock()
\* and wg.Done(); the sequential task goes on with its next wrapper
taskAppend(t) ==
    /\ t.pc = "append"
    /\ tasks' = (tasks \ {t}) \cup advance(t)
    /\ stopResult' = [stopResult EXCEPT ![t.gen] = Append(t.snap, t.res)]
    /\ wg' = [wg EXCEPT ![t.gen] = @ - 1]
    /\ mu' = [mu EXCEPT ![t.gen] = 0]
    /\ UNCHANGED <<status, mutex, pc, th, stopCalls, timeouts>>
    /\ UNCHANGED loaderVars
    /\ UNCHANGED moduleVars

\* a step of goroutine t
taskStep(t) == taskStop(t) \/ taskStopReturn(t) \/ taskLock(t) \/ taskAppend(t)

\* allDone that does not wait for the last wg.Done()
allDoneEarly(gen) == wg[gen] <= 1

\* wg.Wait() returns (lines 266 and 276)
allDone(gen) == wg[gen] = 0

\* StopBySettingDone that returns the error of a component as its own
StopBySettingDoneWithError(c) ==
    /\ pc[c] = "wait"
    /\ allDone(th[c].gen)
    /\ LET rs == stopResult[th[c].gen]
           err == IF \E k \in 1..Len(rs) : rs[k].Error = "stop error"
                  THEN "stop error" ELSE "none"
       IN Return(c, th[c], Ret(FALSE, err, 0, rs, <<>>))
    /\ UNCHANGED <<status, mutex>>
    /\ UNCHANGED loaderVars
    /\ UNCHANGED moduleVars
    /\ UNCHANGED taskVars

\* lines 270-271 and 276-278: every wg.Done() has happened
StopBySettingDone(c) ==
    /\ pc[c] = "wait"
    /\ allDone(th[c].gen)
    /\ Return(c, th[c], Ret(FALSE, "none", 0, stopResult[th[c].gen], <<>>))
    /\ UNCHANGED <<status, mutex>>
    /\ UNCHANGED loaderVars
    /\ UNCHANGED moduleVars
    /\ UNCHANGED taskVars

\* detached that ends the goroutines, as a cancellation would
cancelled(ts) == {}

\* the goroutines ts of a call at the moment it returns through its timer:
\* one that holds a result has only the append to a slice nobody reads left
detached(ts) ==
    UNION {IF t.pc \in {"lock", "append"} THEN advance(t) ELSE {t} : t \in ts}

\* lines 272-273: the timer of a call that was given maxWaitTime fires;
\* the local results keeps what had been appended by then
StopBySettingTimeout(c) ==
    /\ pc[c] = "wait"
    /\ th[c].timed
    /\ timeouts < MaxTimeouts
    /\ timeouts' = timeouts + 1
    /\ LET gen == th[c].gen
       IN /\ Return(c, [th[c] EXCEPT !.results = stopResult[gen]],
                    Ret(FALSE, "stop timeout", 0, timeoutResult(gen), <<>>))
          /\ tasks' = {t \in tasks : t.gen # gen}
                        \cup detached({t \in tasks : t.gen = gen})
          /\ stopResult' = [stopResult EXCEPT ![gen] = <<>>]
          /\ wg' = [wg EXCEPT ![gen] = 0]
          /\ mu' = [mu EXCEPT ![gen] = 0]
          /\ stopCalls' = [stopCalls EXCEPT ![gen] = <<>>]
    /\ UNCHANGED <<status, mutex>>
    /\ UNCHANGED loaderVars
    /\ UNCHANGED moduleVars

\* the arguments of NewStarterLoader: a call after the first changes nothing
\* whatever its argument, and the short lists stand for all of them
NewArgs ==
    IF once THEN StarterLists(Registered, 1)
    ELSE StarterLists(Registered, MaxStarters)

Next ==
    \/ \E list \in NewArgs : NewStarterLoader(list)
    \/ \E c \in Clients : Start(c)
    \/ \E c \in Clients, starterName \in CallerNames : StartStarter(c, starterName)
    \/ \E c \in Clients : startInvoke(c)
    \/ \E c \in Clients : startReturn(c)
    \/ \E c \in Clients : startMark(c)
    \/ \E c \in Clients, maxWaitTime \in CallerWaits : Stop(c, maxWaitTime)
    \/ \E c \in Clients, starterName \in CallerNames, maxWaitTime \in CallerWaits :
         StopStarter(c, starterName, maxWaitTime)
    \/ \E c \in Clients : stopInvoke(c)
    \/ \E c \in Clients : stopReturn(c)
    \/ \E c \in Clients : StoppedStarters(c)
    \/ \E c \in Clients : stoppedStarters(c)
    \/ \E c \in Clients, starter \in Registered : AddStarter(c, starter)
    \/ \E c \in Clients, timed \in BOOLEAN : StopBySetting(c, timed)
    \/ \E t \in tasks : taskStop(t)
    \/ \E t \in tasks : taskStopReturn(t)
    \/ \E t \in tasks : taskLock(t)
    \/ \E t \in tasks : taskAppend(t)
    \/ \E c \in Clients : StopBySettingDone(c)
    \/ \E c \in Clients : StopBySettingTimeout(c)
    \/ \E c \in Clients : Unlock(c)

Spec == Init /\ [][Next]_vars


(***************************************************************************)
(* SpecSync: an orchestrator built from synchronous components of pairwise *)
(* distinct priorities (A, B and C: priorities 2, 0 and 1), on which       *)
(* clients call Start and StopBySetting without maxWaitTime.               *)
(***************************************************************************)
SyncStarters == {w \in Starter : Setting(w).present /\ ~Setting(w).stopAllowAsync}

InitSync ==
    /\ once = TRUE
    /\ loader = "ready"
    /\ starters \in StarterLists(SyncStarters, Cardinality(SyncStarters)) \ {<<>>}
    /\ status = [w \in Starter |-> NotStarted]
    /\ mutex = NoClient
    /\ pc = [c \in Clients |-> "idle"]
    /\ th = [c \in Clients |-> NoLocals]
    /\ tasks = {}
    /\ wg = [g \in Gens |-> 0]
    /\ stopResult = [g \in Gens |-> <<>>]
    /\ mu = [g \in Gens |-> 0]
    /\ stopCalls = [g \in Gens |-> <<>>]
    /\ timeouts = 0
    /\ NoModule

NextSync ==
    \/ \E c \in Clients : Start(c)
    \/ \E c \in Clients : startInvoke(c)
    \/ \E c \in Clients : startReturn(c)
    \/ \E c \in Clients : startMark(c)
    \/ \E c \in Clients : StopBySetting(c, FALSE)
    \/ \E t \in tasks : taskStop(t)
    \/ \E t \in tasks : taskStopReturn(t)
    \/ \E t \in tasks : taskLock(t)
    \/ \E t \in tasks : taskAppend(t)
    \/ \E c \in Clients : StopBySettingDone(c)
    \/ \E c \in Clients : Unlock(c)

SpecSync == InitSync /\ [][NextSync]_vars

(***************************************************************************)
(* SpecNew: clients that call NewStarterLoader any number of times, with   *)
(* any list, among calls of Start and AddStarter, and remember each call.  *)
(***************************************************************************)
NextNew ==
    \/ \E c \in Clients, list \in StarterLists(Registered, MaxStarters) :
         NewStarterLoaderBy(c, list)
    \/ \E c \in Clients : Start(c)
    \/ \E c \in Clients : startInvoke(c)
    \/ \E c \in Clients : startReturn(c)
    \/ \E c \in Clients : startMark(c)
    \/ \E c \in Clients, starter \in Registered : AddStarter(c, starter)
    \/ \E c \in Clients : Unlock(c)

SpecNew == Init /\ [][NextNew]_vars

(***************************************************************************)
(* SpecMixed: an orchestrator built from two synchronous components and an *)
(* asynchronous one of a priority between theirs (A, B and the one without *)
(* a name: priorities 2, 0 and 1), on which clients call Start, Stop and   *)
(* StopBySetting without maxWaitTime.                                      *)
(***************************************************************************)
MixedStarters == {1, 2, 4}

InitMixed ==
    /\ once = TRUE
    /\ loader = "ready"
    /\ starters \in StarterLists(MixedStarters, Cardinality(MixedStarters)) \ {<<>>}
    /\ status = [w \in Starter |-> NotStarted]
    /\ mutex = NoClient
    /\ pc = [c \in Clients |-> "idle"]
    /\ th = [c \in Clients |-> NoLocals]
    /\ tasks = {}
    /\ wg = [g \in Gens |-> 0]
    /\ stopResult = [g \in Gens |-> <<>>]
    /\ mu = [g \in Gens |-> 0]
    /\ stopCalls = [g \in Gens |-> <<>>]
    /\ timeouts = 0
    /\ NoModule

NextMixed ==
    \/ \E c \in Clients : Start(c)
    \/ \E c \in Clients : startInvoke(c)
    \/ \E c \in Clients : startReturn(c)
    \/ \E c \in Clients : startMark(c)
    \/ \E c \in Clients, maxWaitTime \in CallerWaits : Stop(c, maxWaitTime)
    \/ \E c \in Clients : stopInvoke(c)
    \/ \E c \in Clients : stopReturn(c)
    \/ \E c \in Clients : StopBySetting(c, FALSE)
    \/ \E t \in tasks : taskStop(t)
    \/ \E t \in tasks : taskStopReturn(t)
    \/ \E t \in tasks : taskLock(t)
    \/ \E t \in tasks : taskAppend(t)
    \/ \E c \in Clients : StopBySettingDone(c)
    \/ \E c \in Clients : Unlock(c)

SpecMixed == InitMixed /\ [][NextMixed]_vars

(***************************************************************************)
(* SpecLive: an orchestrator built from A (synchronous), the asynchronous  *)
(* component without a name and the asynchronous component that is named A *)
(* too, on which clients call Start and StopBySetting without maxWaitTime. *)
(* Every goroutine that can take a step takes one in the end (a Stop()     *)
(* that was called returns), and so does a StopBySetting whose wait is     *)
(* over.                                                                   *)
(***************************************************************************)
LiveStarters == {1, 4, 5}

InitLive ==
    /\ once = TRUE
    /\ loader = "ready"
    /\ starters \in StarterLists(LiveStarters, MaxStarters) \ {<<>>}
    /\ status = [w \in Starter |-> NotStarted]
    /\ mutex = NoClient
    /\ pc = [c \in Clients |-> "idle"]
    /\ th = [c \in Clients |-> NoLocals]
    /\ tasks = {}
    /\ wg = [g \in Gens |-> 0]
    /\ stopResult = [g \in Gens |-> <<>>]
    /\ mu = [g \in Gens |-> 0]
    /\ stopCalls = [g \in Gens |-> <<>>]
    /\ timeouts = 0
    /\ NoModule

NextLive ==
    \/ \E c \in Clients : Start(c)
    \/ \E c \in Clients : startInvoke(c)
    \/ \E c \in Clients : startReturn(c)
    \/ \E c \in Clients : startMark(c)
    \/ \E c \in Clients : StopBySetting(c, FALSE)
    \/ \E t \in tasks : taskStop(t)
    \/ \E t \in tasks : taskStopReturn(t)
    \/ \E t \in tasks : taskLock(t)
    \/ \E t \in tasks : taskAppend(t)
    \/ \E c \in Clients : StopBySettingDone(c)
    \/ \E c \in Clients : Unlock(c)

SpecLive ==
    /\ InitLive
    /\ [][NextLive]_vars
    /\ WF_vars(\E t \in tasks : taskStep(t))
    /\ WF_vars(\E c \in Clients : StopBySettingDone(c))

(***************************************************************************)
(* Module.Load (module.go 85-107): the loaders are registered one after    *)
(* the other, and the first error ends the loop.                           *)
(***************************************************************************)
Load ==
    /\ mpc = "idle"
    /\ LET l == [NoModuleLocals EXCEPT !.name = "Load"]
       IN IF Len(ModuleLoaders) = 0
          THEN /\ mpc' = "returned"
               /\ ml' = [l EXCEPT !.err = "nil module loader"]
          ELSE /\ mpc' = "inRegister"
               /\ ml' = [l EXCEPT !.idx = 1,
                                  !.calls = <<Call("Register", ModuleLoaders[1], 0, "")>>]
    /\ UNCHANGED <<ModuleLoaders, loadOrder, unloads, unloadWait, sortedByConfig>>
    /\ UNCHANGED starterVars

\* lines 96-103: loader.Register returns
registerReturn ==
    /\ mpc = "inRegister"
    /\ \E failed \in BOOLEAN :
         IF failed
         THEN /\ mpc' = "returned"
              /\ ml' = [ml EXCEPT !.err = "register error"]
         ELSE IF ml.idx < Len(ModuleLoaders)
         THEN /\ mpc' = "inRegister"
              /\ ml' = [ml EXCEPT !.idx = @ + 1,
                                  !.calls = Append(@, Call("Register",
                                                 ModuleLoaders[ml.idx + 1], 0, ""))]
         ELSE /\ mpc' = "returned"
              /\ ml' = [ml EXCEPT !.err = "none"]
    /\ UNCHANGED <<ModuleLoaders, loadOrder, unloads, unloadWait, sortedByConfig>>
    /\ UNCHANGED starterVars

(***************************************************************************)
(* Module.Unload (module.go 112-144).                                      *)
(***************************************************************************)
\* lines 125-141: the ShutdownResult of a loader whose Unregister returned
unloadResult(m, gracefully, failed) ==
    IF ~failed
    THEN ShutdownResult(moduleName(m), "none", gracefully)
    ELSE ShutdownResult(moduleName(m), "unregister error", FALSE)

\* lines 114-123: the result slice and the first call of Unregister
Unload(maxWaitSeconds) ==
    /\ mpc = "idle"
    /\ LET l == [NoModuleLocals EXCEPT
                    !.name = "Unload", !.maxWaitSeconds = maxWaitSeconds,
                    !.shutdownResult = [i \in 1..Len(ModuleLoaders) |-> NoShutdownResult]]
       IN IF Len(ModuleLoaders) = 0
          THEN /\ mpc' = "returned"
               /\ ml' = l
          ELSE /\ mpc' = "inUnregister"
               /\ ml' = [l EXCEPT !.idx = 1,
                                  !.calls = <<Call("Unregister", ModuleLoaders[1],
                                                   maxWaitSeconds, "")>>]
    /\ UNCHANGED <<ModuleLoaders, loadOrder, unloads, unloadWait, sortedByConfig>>
    /\ UNCHANGED starterVars

\* lines 123-143: loader.Unregister returns, its result is stored and the
\* loop goes on with the next loader, whatever was returned
unregisterReturn ==
    /\ mpc = "inUnregister"
    /\ \E gracefully, failed \in BOOLEAN :
         LET l == [ml EXCEPT !.shutdownResult[ml.idx] =
                       unloadResult(ModuleLoaders[ml.idx], gracefully, failed)]
         IN IF ml.idx < Len(ModuleLoaders)
            THEN /\ mpc' = "inUnregister"
                 /\ ml' = [l EXCEPT !.idx = @ + 1,
                                    !.calls = Append(@, Call("Unregister",
                                                   ModuleLoaders[ml.idx + 1],
                                                   ml.maxWaitSeconds, ""))]
            ELSE /\ mpc' = "returned"
                 /\ ml' = l
    /\ UNCHANGED <<ModuleLoaders, loadOrder, unloads, unloadWait, sortedByConfig>>
    /\ UNCHANGED starterVars

(***************************************************************************)
(* Module.UnloadByConfig (module.go 148-196) and unload (198-206).         *)
(***************************************************************************)
\* line 154: sort.Sort orders by Less and promises nothing about loaders of
\* equal priority: every ordering with no loader before one that is Less
\* than it is an outcome
sortedModules(s) ==
    {p \in [1..Len(s) -> Range(s)] :
        /\ NoDup(p)
        /\ \A i, j \in 1..Len(s) : i < j => ~moduleLess(p[j], p[i])}

\* moduleLoadersAfterSort with the sort done on a copy
sortedCopy(s, sortedList) == s

\* line 154: the conversion sortedModuleByUnregisterPriority(m.ModuleLoaders)
\* shares the slice's array, so the sort orders m.ModuleLoaders itself
moduleLoadersAfterSort(s, sortedList) == sortedList

\* lines 151-155: the WaitGroup, the sort and the result slice
UnloadByConfig ==
    /\ mpc = "idle"
    /\ \E sortedList \in sortedModules(ModuleLoaders) :
         ModuleLoaders' = moduleLoadersAfterSort(ModuleLoaders, sortedList)
    /\ unloadWait' = Len(ModuleLoaders)
    /\ ml' = [NoModuleLocals EXCEPT
                 !.name = "UnloadByConfig", !.idx = 1,
                 !.shutdownResult = [i \in 1..Len(ModuleLoaders) |-> NoShutdownResult]]
    /\ mpc' = IF Len(ModuleLoaders) = 0 THEN "wait" ELSE "unload"
    /\ sortedByConfig' = TRUE
    /\ UNCHANGED <<loadOrder, unloads>>
    /\ UNCHANGED starterVars

\* lines 201-205: what unload writes into the loader's ShutdownResult
unloaded(result, gracefully, failed) ==
    IF ~failed
    THEN [result EXCEPT !.Gracefully = gracefully]
    ELSE [result EXCEPT !.Err = "unregister error"]

\* lines 156-182: one iteration of the loop: the result gets its name, and
\* unload is started as a goroutine for a loader that allows it and called
\* for any other, with the UnregisterMaxWaitSeconds in force (line 200).
\* Lines 170-178 and 183-191 only log.
unloadNext ==
    /\ mpc = "unload"
    /\ LET m == ModuleLoaders[ml.idx]
           config == checkConfig(ModuleConfig(m))
           l == [ml EXCEPT !.shutdownResult[ml.idx] =
                     ShutdownResult(moduleName(m), "none", FALSE)]
       IN IF config.UnregisterAllowAsync
          THEN /\ unloads' = unloads \cup {[index |-> ml.idx, loader |-> m,
                                            pc |-> "unload"]}
               /\ ml' = [l EXCEPT !.idx = @ + 1]
               /\ mpc' = IF ml.idx < Len(ModuleLoaders) THEN "unload" ELSE "wait"
          ELSE /\ unloads' = unloads
               /\ ml' = [l EXCEPT !.calls = Append(@, Call("Unregister", m,
                                              config.UnregisterMaxWaitSeconds, ""))]
               /\ mpc' = "inUnload"
    /\ UNCHANGED <<ModuleLoaders, loadOrder, unloadWait, sortedByConfig>>
    /\ UNCHANGED starterVars

\* lines 199-205 called at line 182: Unregister returns to the caller
unloadReturn ==
    /\ mpc = "inUnload"
    /\ \E gracefully, failed \in BOOLEAN :
         ml' = [ml EXCEPT !.shutdownResult[ml.idx] = unloaded(@, gracefully, failed),
                          !.idx = @ + 1]
    /\ unloadWait' = unloadWait - 1
    /\ mpc' = IF ml.idx < Len(ModuleLoaders) THEN "unload" ELSE "wait"
    /\ UNCHANGED <<ModuleLoaders, loadOrder, unloads, sortedByConfig>>
    /\ UNCHANGED starterVars

\* line 200 in a goroutine: the call of Unregister
unloadGo(u) ==
    /\ u.pc = "unload"
    /\ unloads' = (unloads \ {u}) \cup {[u EXCEPT !.pc = "inUnregister"]}
    /\ ml' = [ml EXCEPT !.calls = Append(@, Call("Unregister", u.loader,
                            checkConfig(ModuleConfig(u.loader)).UnregisterMaxWaitSeconds,
                            ""))]
    /\ UNCHANGED <<ModuleLoaders, loadOrder, mpc, unloadWait, sortedByConfig>>
    /\ UNCHANGED starterVars

\* lines 199-205 in a goroutine: Unregister returns
unloadGoReturn(u) ==
    /\ u.pc = "inUnregister"
    /\ \E gracefully, failed \in BOOLEAN :
         ml' = [ml EXCEPT !.shutdownResult[u.index] = unloaded(@, gracefully, failed)]
    /\ unloadWait' = unloadWait - 1
    /\ unloads' = unloads \ {u}
    /\ UNCHANGED <<ModuleLoaders, loadOrder, mpc, sortedByConfig>>
    /\ UNCHANGED starterVars

\* lines 194-195: wait.Wait() returns
UnloadByConfigDone ==
    /\ mpc = "wait"
    /\ unloadWait = 0
    /\ mpc' = "returned"
    /\ UNCHANGED <<ModuleLoaders, loadOrder, ml, unloads, unloadWait, sortedByConfig>>
    /\ UNCHANGED starterVars

\* the caller takes the result of the operation and is free for the next
moduleReturn ==
    /\ mpc = "returned"
    /\ mpc' = "idle"
    /\ ml' = NoModuleLocals
    /\ UNCHANGED <<ModuleLoaders, loadOrder, unloads, unloadWait, sortedByConfig>>
    /\ UNCHANGED starterVars

(***************************************************************************)
(* SpecModule: a Module built with any list of at most MaxModules loaders, *)
(* on which one caller runs Load, Unload and UnloadByConfig in any order.  *)
(***************************************************************************)
ModuleLists == StarterLists(ModuleLoader, MaxModules)

InitModule ==
    /\ once = FALSE
    /\ loader = "nil"
    /\ starters = <<>>
    /\ status = [w \in Starter |-> NotStarted]
    /\ mutex = NoClient
    /\ pc = [c \in Clients |-> "idle"]
    /\ th = [c \in Clients |-> NoLocals]
    /\ tasks = {}
    /\ wg = [g \in Gens |-> 0]
    /\ stopResult = [g \in Gens |-> <<>>]
    /\ mu = [g \in Gens |-> 0]
    /\ stopCalls = [g \in Gens |-> <<>>]
    /\ timeouts = 0
    /\ ModuleLoaders \in ModuleLists
    /\ loadOrder = ModuleLoaders
    /\ mpc = "idle"
    /\ ml = NoModuleLocals
    /\ unloads = {}
    /\ unloadWait = 0
    /\ sortedByConfig = FALSE

NextModule ==
    \/ Load
    \/ registerReturn
    \/ \E maxWaitSeconds \in CallerWaitSeconds : Unload(maxWaitSeconds)
    \/ unregisterReturn
    \/ UnloadByConfig
    \/ unloadNext
    \/ unloadReturn
    \/ \E u \in unloads : unloadGo(u)
    \/ \E u \in unloads : unloadGoReturn(u)
    \/ UnloadByConfigDone
    \/ moduleReturn

SpecModule == InitModule /\ [][NextModule]_vars

(***************************************************************************)
(* Properties.                                                             *)
(***************************************************************************)
\* the clients inside a public operation, from the lock to the unlock
Running == {c \in Clients : pc[c] # "idle"}

\* client c stands at the return of operation name, which did not panic
Returned(c, name) ==
    pc[c] = "returned" /\ th[c].name = name /\ ~th[c].ret.panic

\* the place of wrapper w in the sequence s
Position(s, w) == CHOOSE i \in 1..Len(s) : s[i] = w

\* the calls of calls that are calls of fn
CallsOf(calls, fn) == SelectSeq(calls, LAMBDA e : e.fn = fn)

\* every registered wrapper had status st when the operation of c began
AllWere(c, st) == \A i \in 1..Len(starters) : th[c].pre[starters[i]] = st

\* C1: at most one client is between the lock and the return of a public
\* operation, and that client holds the mutex; the wait of StopBySetting
\* for its goroutines is part of the operation.
C1_OneOperationAtATime ==
    /\ Cardinality(Running) <= 1
    /\ \A c \in Running : mutex = c

\* a StopBySetting waits for a goroutine that is inside a component's Stop()
C1_Witness ==
    \E c \in Clients :
        /\ pc[c] = "wait"
        /\ \E t \in tasks : t.gen = th[c].gen /\ t.pc = "inStop"

\* C2: a Start() that began with every wrapper NotStarted and no goroutine
\* of an earlier StopBySetting running, and in which the Start() of
\* starters[k] was the first to fail, returns that error with
\* starters[1..k-1] Started and starters[k..n] NotStarted, having called
\* Start() of starters[1..k] in that order and of no other.
C2_FailFast ==
    \A c \in Clients :
        LET l == th[c]
            errors == CallsOf(l.calls, "StartError")
            started == CallsOf(l.calls, "Start")
        IN (/\ Returned(c, "Start")
            /\ l.quiet
            /\ AllWere(c, NotStarted)
            /\ Len(errors) > 0)
           => LET k == Position(starters, errors[1].w)
              IN /\ l.ret.err = "start error"
                 /\ l.ret.errOf = starters[k]
                 /\ \A i \in 1..Len(starters) :
                      status[starters[i]] = IF i < k THEN Started ELSE NotStarted
                 /\ Len(started) = k
                 /\ \A i \in 1..k : started[i].w = starters[i]

\* the second of two starters failed
C2_Witness ==
    \E c \in Clients :
        /\ Returned(c, "Start")
        /\ th[c].quiet
        /\ AllWere(c, NotStarted)
        /\ Len(starters) = 2
        /\ th[c].ret.errOf = starters[2]

\* C3: a Start() that began with no goroutine of an earlier StopBySetting
\* running calls Start() of no component that was Started; when every
\* wrapper was Started it calls nothing, changes no status and returns no
\* error.
C3_StartIdempotent ==
    \A c \in Clients :
        LET l == th[c]
        IN (Returned(c, "Start") /\ l.quiet)
           => /\ \A i \in 1..Len(l.calls) : l.pre[l.calls[i].w] # Started
              /\ AllWere(c, Started)
                   => /\ l.calls = <<>>
                      /\ status = l.pre
                      /\ l.ret.err = "none"

\* a Start() of two Started wrappers has returned
C3_Witness ==
    \E c \in Clients :
        /\ Returned(c, "Start")
        /\ th[c].quiet
        /\ Len(starters) = 2
        /\ AllWere(c, Started)


\* the wrappers of a sequence of StopResults or of calls
Wrappers(rs) == [i \in 1..Len(rs) |-> rs[i].wrapper]
Called(calls) == [i \in 1..Len(calls) |-> calls[i].w]

\* s is in strictly ascending stopPriority
Ascending(s) ==
    \A i, j \in 1..Len(s) :
        i < j => Setting(s[i]).stopPriority < Setting(s[j]).stopPriority

\* the wrappers of s in ascending stopPriority, for distinct priorities
ByPriority(s) ==
    CHOOSE p \in [1..Len(s) -> Range(s)] : NoDup(p) /\ Ascending(p)

\* s is the beginning of r
IsPrefix(s, r) == Len(s) <= Len(r) /\ \A i \in 1..Len(s) : s[i] = r[i]

\* the StopResults that the StopBySetting of client c has collected, or has
\* returned
Collected(c) ==
    IF pc[c] = "returned" THEN th[c].ret.results ELSE stopResult[th[c].gen]

\* C4: in a StopBySetting on synchronous starters of pairwise distinct
\* priorities the StopResults are appended in ascending priority, the
\* Stop() calls are made in ascending priority, and a component's Stop() is
\* in flight only when the result of every starter of smaller priority has
\* been appended, so one at a time; the call returns the results in that
\* order (B, C, A for the priorities 2, 0, 1 of A, B, C).
C4_SyncPriorityOrder ==
    \A c \in Clients :
        (pc[c] \in {"wait", "returned"} /\ th[c].name = "StopBySetting")
        => LET g == th[c].gen
               order == ByPriority(starters)
           IN /\ IsPrefix(Wrappers(Collected(c)), order)
              /\ Ascending(Called(stopCalls[g]))
              /\ \A t \in tasks :
                   t.pc = "inStop"
                   => /\ Head(t.todo) = order[Len(Collected(c)) + 1]
                      /\ stopCalls[g][Len(stopCalls[g])].w = Head(t.todo)
              /\ pc[c] = "returned" => Wrappers(Collected(c)) = order

\* A, B and C, all Started, have been stopped in the order B, C, A
C4_Witness ==
    \E c \in Clients :
        /\ Returned(c, "StopBySetting")
        /\ starters = <<1, 2, 3>>
        /\ AllWere(c, Started)
        /\ Wrappers(th[c].ret.results) = <<2, 3, 1>>
        /\ Called(stopCalls[th[c].gen]) = <<2, 3, 1>>


\* every registered wrapper has a Setting
AllSettings == \A i \in 1..Len(starters) : Setting(starters[i]).present

\* C5: a StopBySetting without maxWaitTime on wrappers that all have a
\* Setting returns only when no goroutine of the call is left, and then
\* with no error and with one StopResult for each registered wrapper.
C5_JoinsEveryStop ==
    \A c \in Clients :
        (Returned(c, "StopBySetting") /\ ~th[c].timed /\ AllSettings)
        => /\ th[c].ret.err = "none"
           /\ \A t \in tasks : t.gen # th[c].gen
           /\ Len(th[c].ret.results) = Len(starters)
           /\ \A i \in 1..Len(starters) :
                \E j \in 1..Len(starters) : th[c].ret.results[j].wrapper = starters[i]

\* a StopBySetting without maxWaitTime has returned the results of two
\* wrappers that were Started
C5_Witness ==
    \E c \in Clients :
        /\ Returned(c, "StopBySetting")
        /\ ~th[c].timed
        /\ AllWere(c, Started)
        /\ Len(th[c].ret.results) = 2

\* C6: a StopBySetting that returns through its timer returns, with the
\* timeout error, the StopResults that had been appended by then.
C6_TimeoutReturnsCollected ==
    \A c \in Clients :
        (Returned(c, "StopBySetting") /\ th[c].ret.err = "stop timeout")
        => th[c].ret.results = th[c].results

\* C7: a StopBySetting on wrappers of which one has no Setting returns the
\* configuration error and no StopResult, has launched no goroutine and
\* called no Stop(), and (no goroutine of an earlier call running) leaves
\* every status as it was.
C7_MissingSettingGuard ==
    \A c \in Clients :
        (Returned(c, "StopBySetting") /\ ~AllSettings)
        => /\ th[c].ret.err = "some starter has no setting"
           /\ th[c].ret.results = <<>>
           /\ \A t \in tasks : orphan(t)
           /\ stopCalls[timeouts] = <<>>
           /\ th[c].quiet => status = th[c].pre

\* the guard refused a set with a Started wrapper and a wrapper without a
\* Setting
C7_Witness ==
    \E c \in Clients :
        /\ Returned(c, "StopBySetting")
        /\ ~AllSettings
        /\ \E i \in 1..Len(starters) : status[starters[i]] = Started

\* C8: Stop(maxWaitTime) on a loader with starters returns no error and one
\* StopResult for each wrapper, in registration order, however many Stop()
\* returned an error; with no goroutine of an earlier StopBySetting running
\* it has called Stop() of exactly the wrappers that were Started, in
\* registration order.
C8_StopBestEffort ==
    \A c \in Clients :
        Returned(c, "Stop")
        => /\ th[c].ret.err = "none"
           /\ Wrappers(th[c].ret.results) = starters
           /\ th[c].quiet
                => Called(th[c].calls)
                     = SelectSeq(starters, LAMBDA w : th[c].pre[w] = Started)

\* the Stop() of the first of two wrappers returned an error and the second
\* wrapper was stopped after it
C8_Witness ==
    \E c \in Clients :
        /\ Returned(c, "Stop")
        /\ Len(th[c].ret.results) = 2
        /\ th[c].ret.results[1].Error = "stop error"
        /\ th[c].ret.results[2].Stopped

\* C9: a run of the stop primitive on a wrapper that is not Started, by a
\* client (Stop, StopStarter) or by a goroutine of StopBySetting, produces
\* the StopResult with the error "not started", stopped and gracefully
\* false, calls no Stop() and changes no status.
C9_StopOfNotStarted ==
    [][/\ \A c \in Clients :
            (pc[c] = "stop" /\ status[th[c].w] # Started /\ th'[c] # th[c])
            => /\ status' = status
               /\ th'[c].calls = th[c].calls
               /\ th'[c].results =
                    Append(th[c].results,
                           StopResult(getStarterName(th[c].w), "not started",
                                      FALSE, FALSE, th[c].w))
       /\ \A t \in tasks :
            (t.pc = "stop" /\ status[Head(t.todo)] # Started /\ t \notin tasks')
            => /\ status' = status
               /\ stopCalls' = stopCalls
               /\ \A u \in tasks' \ tasks :
                    /\ u.pc # "inStop"
                    /\ u.pc = "lock"
                         => u.res = StopResult(getStarterName(Head(t.todo)),
                                               "not started", FALSE, FALSE,
                                               Head(t.todo))
      ]_vars

\* StopStarter on a wrapper that was never started has returned
C9_Witness ==
    \E c \in Clients :
        /\ Returned(c, "StopStarter")
        /\ Len(th[c].ret.results) = 1
        /\ th[c].pre[th[c].w] = NotStarted
        /\ th[c].ret.results[1].Error = "not started"
        /\ status[th[c].w] = NotStarted

\* C10: when the Stop() that the stop primitive called returns, the wrapper
\* becomes Stopped if Stop() reported stopped, with or without an error, and
\* keeps its status if not; that status is Started when no goroutine of a
\* StopBySetting that timed out was running as the operation began.
C10_StoppedFlagDecides ==
    [][/\ \A c \in Clients :
            (pc[c] = "inStop" /\ th'[c] # th[c])
            => LET r == th'[c].results[Len(th'[c].results)]
               IN /\ r.wrapper = th[c].w
                  /\ status' = [status EXCEPT
                                  ![th[c].w] = IF r.Stopped THEN Stopped ELSE @]
                  /\ th[c].quiet => status[th[c].w] = Started
       /\ \A t \in tasks :
            (t.pc = "inStop" /\ ~orphan(t) /\ t \notin tasks')
            => \E u \in tasks' \ tasks :
                  /\ u.pc = "lock"
                  /\ u.res.wrapper = Head(t.todo)
                  /\ status' = [status EXCEPT
                                  ![Head(t.todo)] = IF u.res.Stopped THEN Stopped ELSE @]
                  /\ (\A c \in Clients : mutex = c => th[c].quiet)
                       => status[Head(t.todo)] = Started
      ]_vars

\* a Stop() that reported stopped together with an error has moved its
\* wrapper to Stopped, and one that reported neither has left it Started
C10_Witness ==
    \E c \in Clients :
        /\ Returned(c, "Stop")
        /\ Len(th[c].ret.results) = 2
        /\ LET r1 == th[c].ret.results[1]
               r2 == th[c].ret.results[2]
           IN /\ r1.Stopped /\ r1.Error = "stop error"
              /\ status[r1.wrapper] = Stopped
              /\ ~r2.Stopped /\ r2.Error = "none"
              /\ status[r2.wrapper] = Started

\* the wrappers a returned Start or StartStarter of client c was about
StartedBy(c) ==
    IF th[c].name = "Start" THEN Range(starters) ELSE {th[c].w}

\* C11: a Start or StartStarter that returns no error having found a
\* wrapper Stopped (no goroutine of a timed-out StopBySetting running) has
\* called the component's Start() again and leaves the wrapper Started.
C11_RestartAfterStop ==
    \A c \in Clients :
        ((Returned(c, "Start") \/ Returned(c, "StartStarter"))
            /\ th[c].quiet /\ th[c].ret.err = "none")
        => \A w \in StartedBy(c) :
              th[c].pre[w] = Stopped
              => /\ status[w] = Started
                 /\ \E k \in 1..Len(th[c].calls) :
                       th[c].calls[k].fn = "Start" /\ th[c].calls[k].w = w

\* a Start has restarted the Stopped one of two wrappers
C11_Witness ==
    \E c \in Clients :
        /\ Returned(c, "Start")
        /\ th[c].quiet
        /\ th[c].ret.err = "none"
        /\ Len(starters) = 2
        /\ th[c].pre[starters[1]] = Stopped
        /\ th[c].pre[starters[2]] = Started
        /\ status[starters[1]] = Started

\* the registered wrappers StopBySetting stops one after the other
SyncMembers == {w \in Range(starters) : ~Setting(w).stopAllowAsync}

\* C12: while the asynchronous goroutines of a StopBySetting are before or
\* inside their component's Stop(), the sequential goroutine of the call
\* can always take its next step (the status check, the call and the
\* return of Stop(), the lock of the results, the append): none of them
\* waits for an asynchronous member.
C12_AsyncNonBlocking ==
    \A t \in tasks :
        (/\ t.id = 0
         /\ \A u \in tasks : (u.gen = t.gen /\ u.id # 0) => u.pc \in {"stop", "inStop"})
        => ENABLED taskStep(t)

\* the Stop() of an asynchronous member has not returned, and every member
\* of the sync group is stopped and has its StopResult in the collection
C12_Witness ==
    \E t \in tasks :
        /\ ~orphan(t) /\ t.id # 0 /\ t.pc = "inStop"
        /\ SyncMembers # {}
        /\ \A u \in tasks : u.gen = t.gen => u.id # 0
        /\ \A w \in SyncMembers :
              /\ status[w] = Stopped
              /\ \E k \in 1..Len(stopResult[t.gen]) :
                    stopResult[t.gen][k].wrapper = w /\ stopResult[t.gen][k].Stopped

\* C13: the return of StopBySetting through its timer ends no goroutine
\* that has a component's Stop() still to call or in flight, and returns no
\* StopResult of that component; when such a Stop() returns later its
\* stopped flag still decides the wrapper's status, and nothing of it
\* reaches a caller.
C13_TimeoutDoesNotCancel ==
    [][/\ \A c \in Clients :
            (pc[c] = "wait" /\ pc'[c] = "returned" /\ th'[c].ret.err = "stop timeout")
            => \A t \in tasks :
                  (t.gen = th[c].gen /\ t.pc \in {"stop", "inStop"})
                  => /\ t \in tasks'
                     /\ t.gen < timeouts'
                     /\ \A k \in 1..Len(th'[c].ret.results) :
                           th'[c].ret.results[k].wrapper # Head(t.todo)
       /\ \A t \in tasks :
            (orphan(t) /\ t.pc = "inStop" /\ t \notin tasks')
            => /\ status' \in {status, [status EXCEPT ![Head(t.todo)] = Stopped]}
               /\ th' = th
               /\ stopResult' = stopResult
      ]_vars

\* a StopBySetting has returned through its timer while the Stop() of a
\* Started wrapper was in flight, and that Stop() has since returned and
\* moved the wrapper to Stopped
C13_Witness ==
    \E c \in Clients :
        /\ Returned(c, "StopBySetting")
        /\ th[c].ret.err = "stop timeout"
        /\ tasks = {}
        /\ \E w \in Range(starters) :
              /\ th[c].pre[w] = Started
              /\ status[w] = Stopped
              /\ \A k \in 1..Len(th[c].results) : th[c].results[k].wrapper # w

\* C14: a step that writes a status is taken while some client holds the
\* orchestrator lock, and a step that changes the wrapper sequence of a
\* built loader is taken by the client that has the lock.
C14_WritesUnderLock ==
    [][/\ status' # status => mutex # NoClient
       /\ (once /\ starters' # starters) => mutex' # NoClient
      ]_vars

\* C15: when StopBySetting returns, with its results, with the
\* configuration error or through its timer, the wrapper sequence of the
\* orchestrator is the one the call found, in the same order.
C15_SortsACopy ==
    \A c \in Clients :
        Returned(c, "StopBySetting") => starters = th[c].order

\* a StopBySetting has returned the results of two wrappers registered
\* against their stopPriority
C15_Witness ==
    \E c \in Clients :
        /\ Returned(c, "StopBySetting")
        /\ Len(starters) = 2
        /\ Less(starters[2], starters[1])
        /\ Len(th[c].ret.results) = 2
        /\ th[c].ret.results[1].wrapper = starters[2]

\* C16: the first call of NewStarterLoader builds the wrapper sequence
\* from its arguments; every later call returns the loader that exists and
\* changes neither the loader, nor the sequence, nor a status, whatever
\* its arguments.
C16_FirstConstructionWins ==
    [][\A c \in Clients :
          (th'[c].name = "NewStarterLoader" /\ th'[c] # th[c])
          => /\ th'[c].got = loader'
             /\ status' = status
             /\ IF once
                THEN loader' = loader /\ starters' = starters
                ELSE starters' = th'[c].list
      ]_vars

\* a call of NewStarterLoader that was not the first has returned, with a
\* list that the sequence of the orchestrator does not begin with, after a
\* wrapper was started
C16_Witness ==
    \E c \in Clients :
        /\ th[c].name = "NewStarterLoader"
        /\ ~th[c].first
        /\ th[c].list # <<>>
        /\ ~IsPrefix(th[c].list, starters)
        /\ th[c].got = "ready"
        /\ \E w \in Range(starters) : status[w] = Started

\* C17: an AddStarter, whatever the state of the orchestrator it is called
\* on, returns normally having put the new wrapper, NotStarted, at the end
\* of the sequence it found, with the status of every other wrapper as it
\* was (no goroutine of a timed-out StopBySetting running).
C17_AddStarterAlwaysLegal ==
    \A c \in Clients :
        (pc[c] = "returned" /\ th[c].name = "AddStarter")
        => /\ ~th[c].ret.panic
           /\ starters = Append(th[c].order, th[c].w)
           /\ status[th[c].w] = NotStarted
           /\ th[c].quiet => status = th[c].pre

\* the Setting of some registered wrapper carries starterName
Carried(starterName) ==
    \E i \in 1..Len(starters) :
        Setting(starters[i]).present /\ Setting(starters[i]).starterName = starterName

\* C18: a StartStarter or StopStarter returns the error "unknown
\* starterName", having called nothing and produced no result, when no
\* registered wrapper's Setting carries the name; when one does, every call
\* it made went to one registered wrapper whose Setting carries the name.
\* No goroutine of a timed-out StopBySetting running, it changes no status
\* in the first case and none but that wrapper's in the second.
C18_ByName ==
    \A c \in Clients :
        (Returned(c, "StartStarter") \/ Returned(c, "StopStarter"))
        => IF ~Carried(th[c].arg)
           THEN /\ th[c].ret.err = "unknown starterName"
                /\ th[c].calls = <<>>
                /\ th[c].ret.results = <<>>
                /\ th[c].quiet => status = th[c].pre
           ELSE /\ th[c].w \in Range(starters)
                /\ Setting(th[c].w).present
                /\ Setting(th[c].w).starterName = th[c].arg
                /\ th[c].ret.err # "unknown starterName"
                /\ \A k \in 1..Len(th[c].calls) : th[c].calls[k].w = th[c].w
                /\ \A k \in 1..Len(th[c].ret.results) :
                      th[c].ret.results[k].wrapper = th[c].w
                /\ th[c].quiet
                     => \A v \in Starter \ {th[c].w} : status[v] = th[c].pre[v]

\* a StopStarter with a name no Setting carries has returned on an
\* orchestrator of two wrappers, one of them Started
C18_Witness ==
    \E c \in Clients :
        /\ Returned(c, "StopStarter")
        /\ ~Carried(th[c].arg)
        /\ Len(starters) = 2
        /\ \E w \in Range(starters) : status[w] = Started

\* C19: a Start, StartStarter, Stop, StopStarter or StopBySetting on an
\* orchestrator without wrappers returns, as a value, the error "no
\* starter", having called nothing and changed no status.
C19_NoStarterError ==
    \A c \in Clients :
        (/\ pc[c] = "returned"
         /\ th[c].name \in {"Start", "StartStarter", "Stop", "StopStarter",
                            "StopBySetting"}
         /\ Len(starters) = 0)
        => /\ ~th[c].ret.panic
           /\ th[c].ret.err = "no starter"
           /\ th[c].calls = <<>>
           /\ status = th[c].pre

\* the display names of the wrappers of s, in the order of s
NamesOf(s) == [i \in 1..Len(s) |-> getStarterName(s[i])]

\* C20: a StoppedStarters (no goroutine of a timed-out StopBySetting
\* running) returns the display names of the registered wrappers that are
\* not Started, NotStarted or Stopped, in registration order, and none when
\* all are Started; it changes no status.
C20_StoppedStarters ==
    \A c \in Clients :
        (Returned(c, "StoppedStarters") /\ th[c].quiet)
        => /\ status = th[c].pre
           /\ th[c].ret.names =
                NamesOf(SelectSeq(starters, LAMBDA w : status[w] # Started))
           /\ AllWere(c, Started) => th[c].ret.names = <<>>

\* StoppedStarters has returned the names of two wrappers, the first Stopped
\* and the second never started
C20_Witness ==
    \E c \in Clients :
        /\ Returned(c, "StoppedStarters")
        /\ th[c].quiet
        /\ Len(starters) = 2
        /\ status[starters[1]] = Stopped
        /\ status[starters[2]] = NotStarted
        /\ Len(th[c].ret.names) = 2

\* the StopResult of wrapper w in rs
ResultOf(rs, w) == rs[CHOOSE k \in 1..Len(rs) : rs[k].wrapper = w]

\* C21: a StopBySetting that returns otherwise than through its timer, on
\* wrappers that all have a Setting, returns no error whatever the errors
\* of the components' Stop(); every wrapper it found Started (no goroutine
\* of a timed-out call running) had its Stop() called and has a StopResult,
\* and a component's error is in the Error field of its own StopResult.
C21_StopErrorIsLocal ==
    \A c \in Clients :
        (Returned(c, "StopBySetting") /\ th[c].ret.err # "stop timeout" /\ AllSettings)
        => /\ th[c].ret.err = "none"
           /\ th[c].quiet
                => \A w \in Range(starters) :
                      th[c].pre[w] = Started
                      => /\ \E k \in 1..Len(stopCalls[th[c].gen]) :
                               stopCalls[th[c].gen][k].w = w
                         /\ \E k \in 1..Len(th[c].ret.results) :
                               th[c].ret.results[k].wrapper = w
                         /\ ResultOf(th[c].ret.results, w).Error \in {"none", "stop error"}

\* B, the first of the sync group, has failed to stop with an error, and A
\* (sync) and the asynchronous member were stopped all the same
C21_Witness ==
    \E c \in Clients :
        /\ Returned(c, "StopBySetting")
        /\ Len(th[c].ret.results) = 3
        /\ AllWere(c, Started)
        /\ LET rs == th[c].ret.results
           IN /\ ResultOf(rs, 2).Error = "stop error" /\ ~ResultOf(rs, 2).Stopped
              /\ ResultOf(rs, 1).Error = "none" /\ ResultOf(rs, 1).Stopped
              /\ ResultOf(rs, 4).Error = "none" /\ ResultOf(rs, 4).Stopped

\* C22: while a StopBySetting waits for its goroutines, for the sorted copy
\* it made of the wrappers the async group is the wrappers of the copy with
\* stopAllowAsync, the sync group the wrappers without, both in the order
\* of the copy, and every wrapper of the copy is in one group and one only.
C22_PartitionByFlag ==
    \A c \in Clients :
        (pc[c] = "wait" /\ th[c].name = "StopBySetting")
        => \A copied \in sorted(starters) :
              LET asyncStop == asyncStopOf(copied)
                  syncStop == syncStopOf(copied, asyncStop)
              IN /\ asyncStop = SelectSeq(copied, LAMBDA w : Setting(w).stopAllowAsync)
                 /\ syncStop = SelectSeq(copied, LAMBDA w : ~Setting(w).stopAllowAsync)
                 /\ \A w \in Range(copied) :
                       (w \in Range(asyncStop)) # (w \in Range(syncStop))

\* the registered wrappers whose Setting allows an asynchronous stop
AsyncMembers == {w \in Range(starters) : Setting(w).stopAllowAsync}

\* wrapper w has a StopResult in rs
HasResult(rs, w) == \E k \in 1..Len(rs) : rs[k].wrapper = w

\* C23: while a StopBySetting waits, every asynchronous member whose
\* StopResult is not yet collected has a goroutine of its own, and that
\* goroutine, while it has not called Stop(), can always take the step that
\* calls it, wherever the sequential goroutine stands.
C23_AsyncTaskOfItsOwn ==
    \A c \in Clients :
        (pc[c] = "wait" /\ th[c].name = "StopBySetting")
        => \A w \in AsyncMembers :
              ~HasResult(stopResult[th[c].gen], w)
              => \E t \in tasks :
                    /\ t.gen = th[c].gen /\ t.id # 0 /\ t.todo = <<w>>
                    /\ t.pc = "stop" => ENABLED taskStop(t)

\* the Stop() of the asynchronous member is in flight, and nothing else
\* was called: B and A, the sync group, are Started and the sequential
\* goroutine has not begun with B, which sorts before the asynchronous one
C23_Witness ==
    \E c \in Clients :
        /\ pc[c] = "wait"
        /\ AllWere(c, Started)
        /\ Called(stopCalls[th[c].gen]) = <<4>>
        /\ \E t \in tasks : t.id = 0 /\ t.pc = "stop" /\ t.todo = <<2, 1>>
        /\ \E t \in tasks : t.id # 0 /\ t.pc = "inStop" /\ t.todo = <<4>>

\* C24: when the sequential goroutine and an asynchronous goroutine of one
\* StopBySetting both hold the StopResult of their wrapper and the result
\* lock is free, each of the two can be the next to take the lock and
\* append: either completion order can follow.
C24_NoOrderBetweenGroups ==
    \A t, u \in tasks :
        (/\ t.gen = u.gen /\ ~orphan(t)
         /\ t.id = 0 /\ u.id # 0
         /\ t.pc = "lock" /\ u.pc = "lock"
         /\ mu[t.gen] = 0)
        => ENABLED taskLock(t) /\ ENABLED taskLock(u)

\* nothing is collected yet, the result lock is free, and the sequential
\* goroutine with the result of B (the first to sort) and the asynchronous
\* goroutine with the result of its wrapper both stand before the lock
C24_Witness ==
    \E t, u \in tasks :
        /\ t.gen = u.gen /\ ~orphan(t)
        /\ t.id = 0 /\ u.id # 0
        /\ t.pc = "lock" /\ u.pc = "lock"
        /\ t.res.wrapper = 2 /\ t.res.Stopped
        /\ u.res.wrapper = 4 /\ u.res.Stopped
        /\ mu[t.gen] = 0
        /\ stopResult[t.gen] = <<>>

\* C25: while a StopBySetting waits, at most one of its goroutines is
\* between mu.Lock() and mu.Unlock(), the orchestrator lock staying with the
\* caller; the collection holds no wrapper twice, and it holds one
\* StopResult for each wg.Done() that was called: no append is lost.
C25_AppendsSerialized ==
    \A c \in Clients :
        (pc[c] = "wait" /\ th[c].name = "StopBySetting")
        => LET g == th[c].gen
           IN /\ mutex = c
              /\ Cardinality({t \in tasks : t.gen = g /\ t.pc = "append"}) <= 1
              /\ \A t \in tasks : (t.gen = g /\ t.pc = "append") => mu[g] = t.id + 1
              /\ NoDup(Wrappers(stopResult[g]))
              /\ Len(stopResult[g]) + wg[g] = Len(starters)
              /\ \A t \in tasks :
                    (t.gen = g /\ t.pc \in {"lock", "append"})
                    => ~HasResult(stopResult[g], t.res.wrapper)

\* one StopResult is collected, a goroutine holds the result lock for its
\* append and another one waits for the lock with its result
C25_Witness ==
    \E c \in Clients :
        /\ pc[c] = "wait"
        /\ Len(stopResult[th[c].gen]) = 1
        /\ \E t, u \in tasks :
              /\ t.pc = "append" /\ u.pc = "lock"
              /\ t.id = 0 /\ u.id # 0

\* C26: in the calls of a Start or StartStarter, a call of an initHandler
\* follows at once the return without error of the Start() of its wrapper,
\* has the instance that Start() returned, and is made only for a wrapper
\* that has a Setting with an initHandler; every such return of such a
\* wrapper is followed by the call; an error of Start() is followed by no
\* call.  The status is written after the handler was called, and an error
\* leaves it as it was (no goroutine of a timed-out StopBySetting running).
C26_InitHandler ==
    \A c \in Clients :
        th[c].name \in {"Start", "StartStarter"}
        => LET calls == th[c].calls
           IN /\ \A k \in 1..Len(calls) :
                   /\ calls[k].fn = "initHandler"
                        => /\ k > 1
                           /\ calls[k - 1].fn = "StartReturned"
                           /\ calls[k - 1].w = calls[k].w
                           /\ calls[k - 1].instance = calls[k].instance
                           /\ Setting(calls[k].w).present
                           /\ Setting(calls[k].w).initHandler
                   /\ (/\ calls[k].fn = "StartReturned"
                       /\ Setting(calls[k].w).present
                       /\ Setting(calls[k].w).initHandler)
                        => /\ k < Len(calls)
                           /\ calls[k + 1].fn = "initHandler"
                   /\ calls[k].fn = "StartError"
                        => /\ k = Len(calls)
                           /\ calls[k - 1].fn = "Start"
                           /\ pc[c] = "returned"
                           /\ th[c].quiet => status[calls[k].w] = th[c].pre[calls[k].w]
              /\ (pc[c] = "mark" /\ th[c].quiet)
                   => /\ status[th[c].w] # Started
                      /\ calls[Len(calls)].w = th[c].w
                      /\ calls[Len(calls)].fn \in {"StartReturned", "initHandler"}

\* the initHandler of A was called with the instance i2, which the Start()
\* of A had returned, and A is Started
C26_Witness ==
    \E c \in Clients :
        /\ Returned(c, "StartStarter")
        /\ th[c].w = 1
        /\ Len(th[c].calls) = 3
        /\ th[c].calls[2] = Call("StartReturned", 1, 0, "i2")
        /\ th[c].calls[3] = Call("initHandler", 1, 0, "i2")
        /\ status[1] = Started

\* C27: every status is NotStarted at first and is always one of
\* NotStarted, Started and Stopped.  A status changes only to Started, from
\* NotStarted or Stopped, by the client whose call of the wrapper's Start()
\* has returned without error, or to Stopped, from Started, when a Stop()
\* of the wrapper that a client or a goroutine of StopBySetting called
\* returns: never from NotStarted to Stopped, never back to NotStarted.
C27_StatusMachine ==
    /\ \A w \in Starter : status[w] = NotStarted
    /\ [](status \in [Starter -> {NotStarted, Started, Stopped}])
    /\ [][\A w \in Starter :
            status'[w] # status[w]
            => \/ /\ status'[w] = Started
                  /\ status[w] \in {NotStarted, Stopped}
                  /\ \E c \in Clients :
                        /\ pc[c] = "mark" /\ th[c].w = w
                        /\ \E k \in 1..Len(th[c].calls) :
                              /\ th[c].calls[k].fn = "StartReturned"
                              /\ th[c].calls[k].w = w
                              /\ \A j \in (k + 1)..Len(th[c].calls) :
                                    th[c].calls[j].fn = "initHandler"
               \/ /\ status'[w] = Stopped
                  /\ status[w] = Started
                  /\ \/ \E c \in Clients : pc[c] = "inStop" /\ th[c].w = w
                     \/ \E t \in tasks : t.pc = "inStop" /\ Head(t.todo) = w
      ]_vars

\* a Start has found the first of two wrappers Stopped and its Start() has
\* returned an error: the wrapper is still Stopped, the second NotStarted
C27_Witness ==
    \E c \in Clients :
        /\ Returned(c, "Start")
        /\ Len(starters) = 2
        /\ th[c].ret.err = "start error"
        /\ th[c].pre[starters[1]] = Stopped
        /\ status[starters[1]] = Stopped
        /\ status[starters[2]] = NotStarted

\* C28: every Stop() that a Stop(maxWaitTime) calls gets the maxWaitTime
\* of the caller, whatever the Setting of the wrapper, and every Stop() that
\* a goroutine of StopBySetting calls, with or without the maxWaitTime of
\* the call, gets the stopMaxWaitTime of the Setting of its own wrapper.
C28_WaitPassed ==
    /\ \A c \in Clients :
          th[c].name = "Stop"
          => \A k \in 1..Len(th[c].calls) :
                /\ th[c].calls[k].wait = th[c].wait
                /\ th[c].wait \in CallerWaits
    /\ \A g \in Gens :
          \A k \in 1..Len(stopCalls[g]) :
             /\ stopCalls[g][k].fn = "Stop"
             /\ stopCalls[g][k].wait = Setting(stopCalls[g][k].w).stopMaxWaitTime
             /\ stopCalls[g][k].wait \notin CallerWaits

\* a StopBySetting called with maxWaitTime has called the Stop() of a
\* synchronous and of an asynchronous wrapper, each with its own
\* stopMaxWaitTime
C28_Witness ==
    \E c \in Clients :
        /\ pc[c] = "wait"
        /\ th[c].timed
        /\ \E j, k \in 1..Len(stopCalls[th[c].gen]) :
              /\ stopCalls[th[c].gen][j] = Call("Stop", 1, 1, "")
              /\ stopCalls[th[c].gen][k] = Call("Stop", 4, 4, "")

\* the name a StopResult of wrapper w or an entry of StoppedStarters for it
\* is to carry
DisplayName(w) ==
    IF Setting(w).present /\ Setting(w).starterName # ""
    THEN Setting(w).starterName
    ELSE "unnamed"

\* the StopResults of rs carry the display name of their wrapper
Named(rs) ==
    \A k \in 1..Len(rs) :
        rs[k].StarterName = DisplayName(rs[k].wrapper) /\ rs[k].StarterName # ""

\* C29: every StopResult, returned, collected or about to be appended,
\* carries the name of the Setting of its wrapper when the wrapper has a
\* Setting with a name that is not empty, and "unnamed" otherwise; so do
\* the names of StoppedStarters; none of them is the empty string.
C29_DisplayName ==
    /\ \A c \in Clients :
          /\ Named(th[c].results)
          /\ Named(th[c].ret.results)
          /\ \A k \in 1..Len(th[c].ret.names) : th[c].ret.names[k] # ""
          /\ (Returned(c, "StoppedStarters") /\ th[c].quiet)
               => \E s \in StarterLists(Range(starters), Len(starters)) :
                     th[c].ret.names = [i \in 1..Len(s) |-> DisplayName(s[i])]
    /\ \A g \in Gens : Named(stopResult[g])
    /\ \A t \in tasks : t.pc \in {"lock", "append"} => Named(<<t.res>>)

\* Stop has returned the StopResults of a wrapper whose Setting has an empty
\* name and of a wrapper without a Setting, both named "unnamed"
C29_Witness ==
    \E c \in Clients :
        /\ Returned(c, "Stop")
        /\ starters = <<4, 6>>
        /\ Len(th[c].ret.results) = 2
        /\ th[c].ret.results[1].StarterName = "unnamed"
        /\ th[c].ret.results[2].StarterName = "unnamed"
        /\ th[c].ret.results[1].Stopped

\* the calls of the Stop() of component w that have not returned
InFlightStops(w) ==
    Cardinality({c \in Clients : pc[c] = "inStop" /\ th[c].w = w})
    + Cardinality({t \in tasks : t.pc = "inStop" /\ Head(t.todo) = w})

\* C30: at most one call of a component's Stop() is in flight at any time.
C30_OneStopInFlight ==
    \A w \in Starter : InFlightStops(w) <= 1

\* C31: a StopBySetting without maxWaitTime that waits for its goroutines
\* returns in the end, whatever the names, the priorities and the
\* stopAllowAsync flags of the registered wrappers.
C31_JoinTerminates ==
    \A c \in Clients :
        (pc[c] = "wait" /\ th[c].name = "StopBySetting") ~> (pc[c] = "returned")

\* C32: at the step by which a Start returns no error, every registered
\* wrapper is Started.
C32_AllStartedAtReturn ==
    [][\A c \in Clients :
          (/\ pc[c] # "returned" /\ pc'[c] = "returned"
           /\ th'[c].name = "Start" /\ th'[c].ret.err = "none")
          => \A w \in Range(starters') : status'[w] = Started
      ]_vars

\* the results of rs that come from a call of Stop()
FromStop(rs) == SelectSeq(rs, LAMBDA r : r.Error # "not started")

\* the StopResult that belongs to what a component's Stop() returned,
\* written out field by field
Carries(r, rep) ==
    /\ r.wrapper = rep.w
    /\ r.StarterName = DisplayName(rep.w)
    /\ r.Gracefully = rep.gracefully
    /\ r.Stopped = rep.stopped
    /\ r.Error = "stop error" <=> rep.failed
    /\ r.Error = "none" <=> ~rep.failed

\* C33: in a Stop or StopStarter, the StopResults of the wrappers whose
\* Stop() was called are, one for one and in order, what those calls
\* returned: the wrapper's display name and the same gracefully, stopped and
\* error, whatever the three values are; and the calls were made for wrappers
\* that were Started.
C33_ResultCarriesTriple ==
    \A c \in Clients :
        th[c].name \in {"Stop", "StopStarter"}
        => LET rs == FromStop(th[c].results)
               reps == th[c].reported
           IN /\ Len(rs) = Len(reps)
              /\ \A k \in 1..Len(reps) : Carries(rs[k], reps[k])
              /\ th[c].quiet
                 => \A k \in 1..Len(reps) : th[c].pre[reps[k].w] = Started

\* a Stop has returned the results of two components, the first said to have
\* stopped gracefully although it neither stopped nor succeeded, the second
\* stopped without grace and without error
C33_Witness ==
    \E c \in Clients :
        /\ Returned(c, "Stop")
        /\ Len(th[c].reported) = 2
        /\ th[c].reported[1].gracefully /\ ~th[c].reported[1].stopped
        /\ th[c].reported[1].failed
        /\ ~th[c].reported[2].gracefully /\ th[c].reported[2].stopped
        /\ ~th[c].reported[2].failed
        /\ Len(FromStop(th[c].results)) = 2

\* the UnregisterPriority that counts for module loader m
Priority(m) ==
    IF ModuleCatalog[m].present THEN ModuleCatalog[m].UnregisterPriority ELSE 9999

\* the module loaders called, in the order of the calls
LoadersCalled == [k \in 1..Len(ml.calls) |-> ml.calls[k].w]

\* C34: a running Unload has called Unregister of the loaders in
\* ModuleLoaders order, with its own maxWaitSeconds whatever their
\* ModuleConfig says, and every loader called before the last had been
\* unloaded without error when the next was called.
C34_UnloadOneByOne ==
    ml.name = "Unload"
    => /\ Len(ml.calls) <= Len(ModuleLoaders)
       /\ \A k \in 1..Len(ml.calls) :
            /\ ml.calls[k].fn = "Unregister"
            /\ ml.calls[k].w = ModuleLoaders[k]
            /\ ml.calls[k].wait = ml.maxWaitSeconds
       /\ \A k \in 1..(Len(ml.calls) - 1) : ml.shutdownResult[k].Err = "none"

====
